---- MODULE Spec2Model ----
\* A model of legal_ai_app.py: a Streamlit script that is re-run on every user
\* interaction.  Five form "functions" validate their required fields, compose
\* a (system prompt, user prompt) pair and hand it to make_api_request, which
\* calls requests.post once, waits for the answer and reports a failure through
\* st.error.  A run is a step up to its end or up to the wait in requests.post;
\* the answer of the network, a redirect followed by the library and an
\* interaction of the user during the wait are steps of their own.
\*
\* Text is modelled as a sequence of tokens: a character typed by the user is
\* a one-character token, a literal of the program (a template fragment, a
\* widget option, an exception text) is one token.  An f-string is kept as the
\* sequence of its segments, literal and interpolated alternating, so that the
\* text each placeholder produced can be read back; Flatten gives the string.
EXTENDS Integers, Sequences, FiniteSets, TLC

\* ------------------------------------------------------------------ bounds
MaxLen == 1
MaxSel == 2
MaxPages == 2

\* ------------------------------------------------------------ text helpers
Chars == {" ", "x"}

Whitespace == {" ", "\n"}

StrUpTo(n) == UNION {[1..k -> Chars] : k \in 0..n}

\* Python truthiness of a str or a list: empty is false.
Truthy(s) == s # <<>>

RECURSIVE LStrip(_)
LStrip(s) ==
    IF s # <<>> /\ Head(s) \in Whitespace THEN LStrip(Tail(s)) ELSE s

RECURSIVE RStrip(_)
RStrip(s) ==
    IF s # <<>> /\ s[Len(s)] \in Whitespace
    THEN RStrip(SubSeq(s, 1, Len(s) - 1))
    ELSE s

\* str.strip()
Strip(s) == RStrip(LStrip(s))

\* sep.join(items), items a sequence of strings
RECURSIVE Join(_, _)
Join(sep, items) ==
    IF items = <<>> THEN <<>>
    ELSE IF Len(items) = 1 THEN items[1]
    ELSE items[1] \o sep \o Join(sep, Tail(items))

\* The string an f-string evaluates to, from its segments.
RECURSIVE Flatten(_)
Flatten(segs) ==
    IF segs = <<>> THEN <<>> ELSE Head(segs) \o Flatten(Tail(segs))

\* repr of a str, as the f-string renders an element of a list
ReprStr(s) == <<"'">> \o s \o <<"'">>

\* str(list) of a list of strings: ['a', 'b'], and [] for the empty list
ReprList(items) ==
    <<"[">> \o Join(<<", ">>, [i \in 1..Len(items) |-> ReprStr(items[i])]) \o <<"]">>

\* The value None and a str value, as make_api_request returns them.
None == [t |-> "None", s |-> <<>>]

StrVal(s) == [t |-> "str", s |-> s]

\* `if result:` -- None and the empty string are both false.
TruthyVal(v) == v.t = "str" /\ Truthy(v.s)

\* --------------------------------------------------- credential (55-58, 98-111)
\* The process environment: OPENROUTER_API_KEY unset, set to "", or set.
Environments ==
    { [set |-> FALSE, value |-> <<>>],
      [set |-> TRUE, value |-> <<>>],
      [set |-> TRUE, value |-> <<"e">>] }

\* os.environ.get("OPENROUTER_API_KEY", "")
EnvironGet(e) == IF e.set THEN e.value ELSE <<>>

\* What the user can type in the sidebar key input: keys an HTTP header can
\* carry (latin-1 characters, no line break).
KeyInputs == {<<>>, <<"a">>}

\* Lines 56-58: api_key is taken from the environment only when the session
\* state does not hold one yet.
SessionInit(has_key, key, e) == IF ~has_key THEN EnvironGet(e) ELSE key

\* Line 101: the key input is rendered only if the variable is unset or empty.
KeyInputOffered_Always(e) == TRUE

KeyInputOffered(e) == EnvironGet(e) = <<>>

\* Lines 101-111: the sidebar block; `typed` is the value the text_input
\* returns on this run.
Sidebar(key, typed, e) ==
    IF KeyInputOffered(e)
    THEN IF typed # key THEN typed ELSE key
    ELSE key

\* ------------------------------------------------- completion client (60-95)
\* JSON values of a response body.
JDict(f) == [t |-> "dict", v |-> f]

JList(q) == [t |-> "list", v |-> q]

JStr(q) == [t |-> "str", v |-> q]

JNull == [t |-> "null", v |-> <<>>]

\* The result of evaluating an expression: a value, or a raised exception
\* with its class and str(e).
Ok(v) == [exc |-> "none", msg |-> <<>>, val |-> v]

Raise(cls, msg) == [exc |-> cls, msg |-> msg, val |-> JNull]

\* obj[key] with a str key
GetKey(obj, key) ==
    CASE obj.t = "dict" ->
            IF key \in DOMAIN obj.v THEN Ok(obj.v[key])
            ELSE Raise("KeyError", ReprStr(<<key>>))
      [] obj.t = "list" ->
            Raise("TypeError", <<"list indices must be integers or slices, not str">>)
      [] obj.t = "str" ->
            Raise("TypeError", <<"string indices must be integers, not 'str'">>)
      [] OTHER ->
            Raise("TypeError", <<"'NoneType' object is not subscriptable">>)

\* obj[0]
GetFirst(obj) ==
    CASE obj.t = "list" ->
            IF obj.v # <<>> THEN Ok(obj.v[1])
            ELSE Raise("IndexError", <<"list index out of range">>)
      [] obj.t = "dict" -> Raise("KeyError", <<"0">>)
      [] obj.t = "str" ->
            IF obj.v # <<>> THEN Ok(JStr(<<obj.v[1]>>))
            ELSE Raise("IndexError", <<"string index out of range">>)
      [] OTHER ->
            Raise("TypeError", <<"'NoneType' object is not subscriptable">>)

\* The bodies an endpoint can send, by name.
BodyIds ==
    { "empty", "not_json", "no_choices", "empty_choices", "no_content",
      "null_content", "empty_content", "content" }

Envelope(content) ==
    JDict([choices |-> JList(<< JDict([message |-> JDict(content)]) >>)])

Body(id) ==
    CASE id \in {"empty", "not_json"} -> [parsable |-> FALSE, json |-> JNull]
      [] id = "no_choices" ->
            [parsable |-> TRUE, json |-> JDict([error |-> JStr(<<"x">>)])]
      [] id = "empty_choices" ->
            [parsable |-> TRUE, json |-> JDict([choices |-> JList(<<>>)])]
      [] id = "no_content" ->
            [parsable |-> TRUE, json |-> Envelope([role |-> JStr(<<"assistant">>)])]
      [] id = "null_content" ->
            [parsable |-> TRUE, json |-> Envelope([content |-> JNull])]
      [] id = "empty_content" ->
            [parsable |-> TRUE, json |-> Envelope([content |-> JStr(<<>>)])]
      [] OTHER ->
            [parsable |-> TRUE, json |-> Envelope([content |-> JStr(<<"o", "k">>)])]

\* The statuses on which the library sends the request again to the Location
\* of the answer (allow_redirects is left at its default, True).
RedirectStatuses == {302, 307, 308}

\* The statuses whose response has no body for the client, whatever the
\* server sent after the headers.
NoBodyStatuses == {204, 304}

\* The body response.json() reads.
BodyRead(resp) == IF resp.status \in NoBodyStatuses THEN "empty" ELSE resp.body

\* How a request can end: an exception of the transport, or a response that
\* is not a followed redirect, with its status and the body the endpoint sent.
\* 300 is a 3xx the library does not follow.
Responses ==
    { [kind |-> k, status |-> 0, body |-> "empty"] :
          k \in {"ConnectionError", "Timeout"} }
    \cup { [kind |-> "response", status |-> 200, body |-> b] :
               b \in BodyIds \ {"empty"} }
    \cup { [kind |-> "response", status |-> s, body |-> "content"] :
               s \in {300, 304} }
    \cup { [kind |-> "response", status |-> s, body |-> "no_choices"] :
               s \in {401, 500} }

\* The answers the model gives the request that follows a redirect.
RedirectedResponses ==
    { [kind |-> "response", status |-> 200, body |-> "content"],
      [kind |-> "response", status |-> 401, body |-> "no_choices"] }

Reason(status) ==
    CASE status = 200 -> "OK"
      [] status = 300 -> "Multiple Choices"
      [] status = 304 -> "Not Modified"
      [] status = 401 -> "Unauthorized"
      [] OTHER -> "Internal Server Error"

Url == "https://openrouter.ai/api/v1/chat/completions"

TimeoutSeconds == 60

MaxTokens == 2000

\* Lines 66-69
Headers(key) ==
    [Authorization |-> <<"Bearer ">> \o key, ContentType |-> "application/json"]

\* Lines 71-79
Data(prompt, system_prompt) ==
    [model |-> "openai/gpt-4o-mini",
     messages |-> << [role |-> "system", content |-> system_prompt],
                     [role |-> "user", content |-> prompt] >>,
     max_tokens |-> MaxTokens,
     temperature |-> "0.3"]

\* Lines 82-87: the request handed to requests.post
Request(key, prompt, system_prompt) ==
    [method |-> "POST", url |-> Url, headers |-> Headers(key),
     body |-> <<Data(prompt, system_prompt)>>, timeout |-> TimeoutSeconds]

\* The request the library sends after a redirect to the same URL: the same
\* request after 307 and 308; after 302 a GET without the body and without
\* its Content-Type.  The Authorization header stays, the host being the same.
Redirected(req, status) ==
    IF status \in {307, 308} THEN req
    ELSE [method |-> "GET", url |-> req.url,
          headers |-> [Authorization |-> req.headers.Authorization],
          body |-> <<>>, timeout |-> req.timeout]

\* Lines 82-87: requests.post, against the answer `resp` of the network
Post(resp) ==
    CASE resp.kind = "ConnectionError" ->
            Raise("ConnectionError",
                  <<"HTTPSConnectionPool(host='openrouter.ai', port=443): Max retries exceeded">>)
      [] resp.kind = "Timeout" ->
            Raise("Timeout",
                  <<"HTTPSConnectionPool(host='openrouter.ai', port=443): Read timed out. (read timeout=60)">>)
      [] OTHER -> Ok(JNull)

\* Line 88: Response.raise_for_status raises for 4xx and 5xx only.
RaiseForStatus(status) ==
    IF 400 <= status /\ status < 500
    THEN Raise("HTTPError",
               <<ToString(status), " Client Error: ", Reason(status), " for url: ", Url>>)
    ELSE IF 500 <= status /\ status < 600
    THEN Raise("HTTPError",
               <<ToString(status), " Server Error: ", Reason(status), " for url: ", Url>>)
    ELSE Ok(JNull)

\* Line 89: Response.json
ResponseJson(body) ==
    IF body.parsable THEN Ok(body.json)
    ELSE Raise("JSONDecodeError", <<"Expecting value: line 1 column 1 (char 0)">>)

\* Line 89, the subscriptions in order; an exception raised by one of them
\* ends the expression.
ContentOf(message) ==
    IF message.exc # "none" THEN message ELSE GetKey(message.val, "content")

MessageOf(first) ==
    IF first.exc # "none" THEN first ELSE ContentOf(GetKey(first.val, "message"))

FirstOf(choices) ==
    IF choices.exc # "none" THEN choices ELSE MessageOf(GetFirst(choices.val))

\* Line 89: ['choices'][0]['message']['content']
ExtractContent(json) == FirstOf(GetKey(json, "choices"))

\* Line 89, after response.json() gave or raised j
AfterJson(j) == IF j.exc # "none" THEN j ELSE ExtractContent(j.val)

\* Lines 88-89, after raise_for_status returned or raised r
AfterStatus(r, resp) ==
    IF r.exc # "none" THEN r ELSE AfterJson(ResponseJson(Body(BodyRead(resp))))

\* Lines 82-89, after requests.post returned or raised p
AfterPost(p, resp) ==
    IF p.exc # "none" THEN p ELSE AfterStatus(RaiseForStatus(resp.status), resp)

\* Lines 82-89: the body of the try block
TryBlock(resp) == AfterPost(Post(resp), resp)

\* requests.exceptions: the classes derived from RequestException.  Since
\* requests 2.27 the JSONDecodeError raised by Response.json is one of them.
IsRequestException(cls) ==
    cls \in {"ConnectionError", "Timeout", "HTTPError", "JSONDecodeError"}

\* Line 93: every class raised in the try block derives from Exception.
IsException(cls) ==
    cls \in {"ConnectionError", "Timeout", "HTTPError", "JSONDecodeError",
             "KeyError", "IndexError", "TypeError"}

\* The content as the Python value the function returns.
PyValue(json) == IF json.t = "str" THEN StrVal(json.v) ELSE None

\* Line 62: `if not st.session_state.api_key`
MissingCredential_Never(key) == FALSE

MissingCredential(key) == ~Truthy(key)

ConfigError == <<"Please enter your OpenRouter API key in the sidebar.">>

\* Line 82: requests.post puts the request on the wire and waits.
Sent(req) == <<req>>

\* Line 82, inside requests.post: the answer to the last request sent is a
\* redirect, and the library sends the request that follows it.
Follow(sent, status) == Append(sent, Redirected(sent[Len(sent)], status))

\* Lines 60-95 hold no assignment to st.session_state.api_key: the credential
\* after a call is the credential before it, whatever exception was handled.
CredentialAfterRequest_ClearedOnFailure(key, exc) ==
    IF exc = "none" THEN key ELSE <<>>

CredentialAfterRequest(key, exc) == key

\* Lines 88-95: the return or the except clause that ends the call, given the
\* outcome t of the try block and the requests `sent` by it.
\*   ret: the returned value; errors: the st.error messages; posts: the HTTP
\*   requests issued; raised: an exception left the function; handler: the
\*   except clause that ran; exc: the class raised; api_key: the session
\*   credential after the call; waiting: requests.post has not returned.
Handled(key, t, sent) ==
    [ret |-> IF t.exc = "none" THEN PyValue(t.val) ELSE None,
     errors |->
        IF t.exc = "none" THEN <<>>
        ELSE IF IsRequestException(t.exc)
        THEN << <<"API request failed: ">> \o t.msg >>
        ELSE IF IsException(t.exc)
        THEN << <<"An error occurred: ">> \o t.msg >>
        ELSE <<>>,
     posts |-> sent,
     raised |-> t.exc # "none" /\ ~IsRequestException(t.exc) /\ ~IsException(t.exc),
     handler |->
        IF t.exc = "none" THEN "none"
        ELSE IF IsRequestException(t.exc) THEN "RequestException"
        ELSE IF IsException(t.exc) THEN "Exception"
        ELSE "none",
     exc |-> t.exc,
     api_key |-> CredentialAfterRequest(key, t.exc),
     waiting |-> FALSE]

\* Lines 82-87: the call is inside requests.post, its requests `sent` and
\* the final answer not yet there.
Waiting(key, sent) ==
    [ret |-> None, errors |-> <<>>, posts |-> sent, raised |-> FALSE,
     handler |-> "none", exc |-> "none", api_key |-> key, waiting |-> TRUE]

\* Lines 60-87: the call up to the point where it waits for the network.
make_api_request(key, prompt, system_prompt) ==
    IF MissingCredential(key)
    THEN [ret |-> None, errors |-> <<ConfigError>>, posts |-> <<>>,
          raised |-> FALSE, handler |-> "none", exc |-> "none",
          api_key |-> CredentialAfterRequest(key, "none"), waiting |-> FALSE]
    ELSE Waiting(key, Sent(Request(key, prompt, system_prompt)))

\* Lines 88-95: the rest of the call once requests.post has returned or
\* raised on the answer resp.
Answered(key, sent, resp) == Handled(key, TryBlock(resp), sent)

\* The result of a run in which make_api_request was not called.
NoCall(key) ==
    [ret |-> None, errors |-> <<>>, posts |-> <<>>, raised |-> FALSE,
     handler |-> "none", exc |-> "none", api_key |-> key, waiting |-> FALSE]

\* ------------------------------------------------------ widgets (134-492)
Functions ==
    << "Contract Analysis & Review", "Legal Document Drafting",
       "Case Law Research Assistant", "Legal Memorandum Generator",
       "Regulatory Compliance Checker" >>

AnalysisTypes ==
    <<"General Review", "Risk Assessment", "Key Terms Extraction", "Compliance Check">>

FocusAreas ==
    << "Liability Clauses", "Payment Terms", "Termination Conditions",
       "Intellectual Property", "Confidentiality", "Force Majeure" >>

ContractTypes ==
    <<"Employment", "Service Agreement", "NDA", "Purchase Agreement", "Lease", "Other">>

DocumentTypes ==
    << "Non-Disclosure Agreement (NDA)", "Employment Contract", "Service Agreement",
       "Terms of Service", "Privacy Policy", "Demand Letter", "Cease and Desist" >>

Jurisdictions ==
    <<"Federal", "Kuala Lumpur", "Selangor", "Putrajaya", "Sabah", "Sarawak", "Other State">>

CaseTypes ==
    <<"All Types", "Civil", "Criminal", "Constitutional", "Employment", "Contract", "Tort">>

TimePeriods ==
    <<"Recent (last 5 years)", "Last 10 years", "Landmark cases", "All time periods">>

MemoTypes ==
    << "Legal Research Memo", "Case Analysis", "Litigation Strategy",
       "Compliance Memo", "Opinion Letter" >>

Priorities == <<"Standard", "Urgent", "Confidential">>

AnalysisDepths == <<"Brief Summary", "Standard Analysis", "Comprehensive Review">>

Industries ==
    << "Healthcare (HIPAA)", "Finance (SOX, GDPR)", "Technology (GDPR, CCPA)",
       "Education (FERPA)", "Government Contracting", "Food & Drug (FDA)", "Other" >>

BusinessSizes ==
    <<"Startup/Small", "Medium Enterprise", "Large Corporation", "Non-Profit">>

GeographicScopes ==
    <<"United States", "European Union", "California", "Canada", "International">>

ComplianceAreas ==
    << "Data Privacy", "Financial Reporting", "Employment Law", "Environmental",
       "Safety Standards", "Licensing", "Tax Compliance" >>

\* str.lower() on the literals the program lower-cases; a typed character
\* of Chars is its own lower case.
LowerTok(tok) ==
    CASE tok = "General Review" -> "general review"
      [] tok = "Risk Assessment" -> "risk assessment"
      [] tok = "Key Terms Extraction" -> "key terms extraction"
      [] tok = "Compliance Check" -> "compliance check"
      [] tok = "Employment" -> "employment"
      [] tok = "Service Agreement" -> "service agreement"
      [] tok = "NDA" -> "nda"
      [] tok = "Purchase Agreement" -> "purchase agreement"
      [] tok = "Lease" -> "lease"
      [] tok = "Other" -> "other"
      [] tok = "Legal Research Memo" -> "legal research memo"
      [] tok = "Case Analysis" -> "case analysis"
      [] tok = "Litigation Strategy" -> "litigation strategy"
      [] tok = "Compliance Memo" -> "compliance memo"
      [] tok = "Opinion Letter" -> "opinion letter"
      [] tok = "Brief Summary" -> "brief summary"
      [] tok = "Standard Analysis" -> "standard analysis"
      [] tok = "Comprehensive Review" -> "comprehensive review"
      [] tok = "PDF" -> "pdf"
      [] tok = "DOCX" -> "docx"
      [] OTHER -> tok

Lower_Identity(s) == s

Lower(s) == [i \in 1..Len(s) |-> LowerTok(s[i])]

\* str(bool) as an f-string renders it
BoolStr(b) == IF b THEN <<"True">> ELSE <<"False">>

\* The strings of a list of options, for join and repr.
Items(sel) == [i \in 1..Len(sel) |-> <<sel[i]>>]

\* ------------------------------------------- prompt composition (201-516)
\* Lines 201-212.  Segments 2, 4 and 6 are the interpolated expressions.
ContractSystemPrompt(analysis_type, focus_areas, contract_type) ==
    << <<"You are an expert legal contract analyst. Analyze the provided contract with focus on ">>,
       Lower(<<analysis_type>>),
       <<". \n            Pay special attention to: ">>,
       IF Truthy(focus_areas) THEN Join(<<", ">>, Items(focus_areas))
       ELSE <<"all standard contract provisions">>,
       <<".\n            This appears to be a ">>,
       Lower(<<contract_type>>),
       <<" contract.\n            \n            Provide a structured analysis including:\n            1. Executive Summary\n            2. Key Terms and Conditions\n            3. Potential Risks and Red Flags\n            4. Recommendations\n            5. Missing Clauses (if any)\n            \n            Format your response clearly with headings and bullet points.">> >>

\* Line 215: the contract text is passed as the prompt unchanged.
ContractUserPrompt(contract_text) == <<contract_text>>

\* Lines 260-271.  Segments 2 and 4.
DraftingSystemPrompt(document_type, jurisdiction) ==
    << <<"You are an expert legal document drafter. Create a comprehensive ">>,
       <<document_type>>,
       <<" based on the provided requirements.\n            \n            Include standard legal provisions appropriate for this document type, considering the jurisdiction: ">>,
       IF Truthy(jurisdiction) THEN jurisdiction ELSE <<"general">>,
       <<".\n            \n            Structure the document professionally with:\n            1. Title and parties identification\n            2. Recitals/Background\n            3. Main terms and conditions\n            4. Standard legal clauses\n            5. Signature blocks\n            \n            Make it legally sound but clearly written. Include appropriate legal disclaimers.">> >>

\* Line 246: duration and compensation are bound only for these types.
HasDurationInputs(document_type) ==
    document_type \in {"Employment Contract", "Service Agreement"}

\* Lines 273-277.  Segments 2, 4, 6, 8, 10 and 12.  `'duration' in locals()`
\* holds exactly when line 246 ran the two text inputs in this run.
DraftingUserPrompt(document_type, document_details, parties, jurisdiction, duration, compensation) ==
    << <<"Document Type: ">>,
       <<document_type>>,
       <<"\n            Details: ">>,
       document_details,
       <<"\n            Parties: ">>,
       IF Truthy(parties) THEN parties ELSE <<"Not specified">>,
       <<"\n            Jurisdiction: ">>,
       IF Truthy(jurisdiction) THEN jurisdiction ELSE <<"Not specified">>,
       <<"\n            Additional Info: Duration: ">>,
       IF HasDurationInputs(document_type) THEN duration ELSE <<"N/A">>,
       <<", Compensation: ">>,
       IF HasDurationInputs(document_type) THEN compensation ELSE <<"N/A">> >>

\* Lines 336-349.  Segments 2, 4 and 6.
ResearchSystemPrompt(jurisdiction_filter, case_type, time_period) ==
    << <<"You are an expert Malaysia legal researcher. Research and provide information about relevant case law for the given legal issue.\n            \n            Focus on: ">>,
       IF Truthy(jurisdiction_filter) THEN Join(<<", ">>, Items(jurisdiction_filter))
       ELSE <<"all jurisdictions">>,
       <<"\n            Case type: ">>,
       <<case_type>>,
       <<"\n            Time period: ">>,
       <<time_period>>,
       <<"\n            \n            Provide a comprehensive research summary including:\n            1. Most relevant landmark/precedent cases\n            2. Key legal principles established\n            3. Recent developments or trends\n            4. Distinguishing factors and exceptions\n            5. Practical applications and implications\n            \n            Cite cases properly and explain their relevance to the issue.">> >>

\* Lines 351-353.  Segments 2, 4, 6, 8 and 10; the list is interpolated as is.
ResearchUserPrompt(legal_issue, case_context, jurisdiction_filter, case_type, time_period) ==
    << <<"Legal Issue: ">>,
       legal_issue,
       <<"\n            Context: ">>,
       IF Truthy(case_context) THEN case_context ELSE <<"Not provided">>,
       <<"\n            Research Parameters: Jurisdiction: ">>,
       ReprList(Items(jurisdiction_filter)),
       <<", Type: ">>,
       <<case_type>>,
       <<", Period: ">>,
       <<time_period>> >>

\* Lines 407-421.  Segments 2, 4, 6, 8 and 10.
MemoSystemPrompt(memo_type, analysis_depth, priority, include_recommendations) ==
    << <<"You are an expert legal writer creating a professional legal memorandum. \n            \n            Create a ">>,
       Lower(<<memo_type>>),
       <<" with ">>,
       Lower(<<analysis_depth>>),
       <<" level of detail.\n            Priority: ">>,
       <<priority>>,
       <<"\n            Include recommendations: ">>,
       BoolStr(include_recommendations),
       <<"\n            \n            Structure the memorandum professionally:\n            1. Header (To, From, Date, Subject)\n            2. Executive Summary\n            3. Statement of Facts\n            4. Legal Analysis\n            5. Conclusion\n            ">>,
       IF include_recommendations THEN <<"6. Recommendations">> ELSE <<>>,
       <<"\n            \n            Use proper legal writing style with clear headings and logical flow.">> >>

\* Lines 423-430.  Segments 2, 4, 6, 8, 10 and 12.
MemoUserPrompt(memo_to, memo_from, memo_subject, memo_type, facts, legal_question) ==
    << <<"MEMORANDUM DETAILS:\n            To: ">>,
       memo_to,
       <<"\n            From: ">>,
       memo_from,
       <<"\n            Subject: ">>,
       memo_subject,
       <<"\n            Type: ">>,
       <<memo_type>>,
       <<"\n            \n            Facts: ">>,
       facts,
       <<"\n            Legal Questions: ">>,
       legal_question >>

\* Lines 496-511.  Segments 2, 4, 6 and 8.
ComplianceSystemPrompt(industry, business_size, geographic_scope, compliance_areas) ==
    << <<"You are an expert regulatory compliance consultant. Analyze the provided business description for compliance requirements in the ">>,
       <<industry>>,
       <<" sector.\n            \n            Consider:\n            - Business size: ">>,
       <<business_size>>,
       <<"\n            - Geographic scope: ">>,
       IF Truthy(geographic_scope) THEN Join(<<", ">>, Items(geographic_scope))
       ELSE <<"Not specified">>,
       <<"\n            - Focus areas: ">>,
       IF Truthy(compliance_areas) THEN Join(<<", ">>, Items(compliance_areas))
       ELSE <<"General compliance">>,
       <<"\n            \n            Provide a comprehensive compliance analysis including:\n            1. Applicable Regulations and Laws\n            2. Current Compliance Status Assessment\n            3. Required Actions and Documentation\n            4. Risk Areas and Potential Violations\n            5. Implementation Timeline and Priorities\n            6. Ongoing Compliance Requirements\n            \n            Be specific about regulatory requirements and practical steps.">> >>

\* Lines 513-516.  Segments 2, 4, 6, 8, 10 and 12.
ComplianceUserPrompt(industry, business_description, specific_concerns, business_size, geographic_scope, compliance_areas) ==
    << <<"Industry: ">>,
       <<industry>>,
       <<"\n            Business Description: ">>,
       business_description,
       <<"\n            Specific Concerns: ">>,
       IF Truthy(specific_concerns) THEN specific_concerns
       ELSE <<"General compliance review">>,
       <<"\n            Business Context: Size: ">>,
       <<business_size>>,
       <<", Geographic: ">>,
       ReprList(Items(geographic_scope)),
       <<", Focus: ">>,
       ReprList(Items(compliance_areas)) >>

\* ---------------------------------------------- document upload (154-179)
\* st.file_uploader returns None or a file.  A file has a name, and either
\* parses as its declared type (pages of a PDF, paragraphs of a DOCX) or makes
\* the parsing library raise.
NoFile == [present |-> FALSE, name |-> <<>>, valid |-> TRUE, pages |-> <<>>, paras |-> <<>>]

\* page.extract_text() gives a str, possibly empty, or None.
PageTexts == {None, StrVal(<<>>), StrVal(<<"x">>)}

PdfFiles ==
    { [present |-> TRUE, name |-> <<"c", ".", "pdf">>, valid |-> TRUE,
       pages |-> pg, paras |-> <<>>] :
          pg \in UNION {[1..n -> PageTexts] : n \in 0..MaxPages} }
    \cup { [present |-> TRUE, name |-> <<"c", ".", "PDF">>, valid |-> FALSE,
            pages |-> <<>>, paras |-> <<>>] }

DocxFiles ==
    { [present |-> TRUE, name |-> <<"c", ".", "docx">>, valid |-> TRUE,
       pages |-> <<>>, paras |-> pr] :
          pr \in { <<>>, << <<"x">> >>, << <<"x">>, <<>> >> } }
    \cup { [present |-> TRUE, name |-> <<"c", ".", "docx">>, valid |-> FALSE,
            pages |-> <<>>, paras |-> <<>>] }

\* name.split(".")[-1]: what follows the last "." of the name
RECURSIVE LastPart(_)
LastPart(name) ==
    IF \E i \in 1..Len(name) : name[i] = "."
    THEN LastPart(Tail(name))
    ELSE name

\* Line 161
FileType(file) == Lower(LastPart(file.name))

\* Line 165: `page.extract_text() or ""`
OrEmpty_NoneAsText(v) == IF v.t = "None" THEN <<"None">> ELSE v.s

OrEmpty(v) == IF TruthyVal(v) THEN v.s ELSE <<>>

\* Lines 159-179: the contract text of this run and the st.error it shows.
\* `typed` is the value of the text area, which is rendered only without a file.
ContractText(file, typed) ==
    IF file.present
    THEN IF FileType(file) = <<"pdf">>
         THEN IF file.valid
              THEN [text |-> Join(<<"\n">>, [i \in 1..Len(file.pages) |-> OrEmpty(file.pages[i])]),
                    errors |-> <<>>]
              ELSE [text |-> <<>>,
                    errors |-> << <<"Could not read PDF: ", "EOF marker not found">> >>]
         ELSE IF FileType(file) = <<"docx">>
         THEN IF file.valid
              THEN [text |-> Join(<<"\n">>, file.paras), errors |-> <<>>]
              ELSE [text |-> <<>>,
                    errors |-> << <<"Could not read DOCX: ", "File is not a zip file">> >>]
         ELSE [text |-> <<>>, errors |-> <<>>]
    ELSE [text |-> typed, errors |-> <<>>]

\* ------------------------------------------------- widget state (134-492)
\* The values the widgets of the selected function return; Streamlit drops
\* the state of a widget that a run does not render.
DefaultWidgets ==
    [ uploaded_file |-> NoFile, contract_text |-> <<>>,
      analysis_type |-> AnalysisTypes[1], focus_areas |-> <<>>,
      contract_type |-> ContractTypes[1],
      document_type |-> DocumentTypes[1], document_details |-> <<>>,
      duration |-> <<>>, compensation |-> <<>>, jurisdiction |-> <<>>,
      parties |-> <<>>,
      legal_issue |-> <<>>, case_context |-> <<>>, jurisdiction_filter |-> <<>>,
      case_type |-> CaseTypes[1], time_period |-> TimePeriods[1],
      memo_to |-> <<>>, memo_from |-> <<>>, memo_subject |-> <<>>,
      facts |-> <<>>, legal_question |-> <<>>, memo_type |-> MemoTypes[1],
      priority |-> Priorities[1], analysis_depth |-> AnalysisDepths[1],
      include_recommendations |-> TRUE,
      industry |-> Industries[1], business_description |-> <<>>,
      specific_concerns |-> <<>>, business_size |-> BusinessSizes[1],
      geographic_scope |-> <<>>, compliance_areas |-> <<>> ]

\* The widgets each function renders.
FieldsOf(fc) ==
    CASE fc = Functions[1] ->
            {"uploaded_file", "contract_text", "analysis_type", "focus_areas",
             "contract_type"}
      [] fc = Functions[2] ->
            {"document_type", "document_details", "duration", "compensation",
             "jurisdiction", "parties"}
      [] fc = Functions[3] ->
            {"legal_issue", "case_context", "jurisdiction_filter", "case_type",
             "time_period"}
      [] fc = Functions[4] ->
            {"memo_to", "memo_from", "memo_subject", "facts", "legal_question",
             "memo_type", "priority", "analysis_depth", "include_recommendations"}
      [] OTHER ->
            {"industry", "business_description", "specific_concerns",
             "business_size", "geographic_scope", "compliance_areas"}

\* What the model lets the user enter in a text field: any text up to MaxLen
\* characters in the required field that line 200, 259, 335 or 495 strips,
\* left empty or filled in the others.
LongTexts == StrUpTo(MaxLen)

ShortTexts == {<<>>, <<"x">>}

\* The selections of a multiselect, in the order of selection.
Selections(options, n) ==
    { q \in UNION {[1..k -> {options[i] : i \in 1..n}] : k \in 0..MaxSel} :
          \A i, j \in 1..Len(q) : i # j => q[i] # q[j] }

\* The values the model lets the user give each widget.
FieldDomain(f) ==
    CASE f = "uploaded_file" -> {NoFile} \cup PdfFiles \cup DocxFiles
      [] f \in {"contract_text", "document_details", "legal_issue",
                "business_description"} -> LongTexts
      [] f \in {"memo_subject", "facts", "legal_question", "duration",
                "compensation", "jurisdiction", "parties", "case_context",
                "memo_to", "memo_from", "specific_concerns"} -> ShortTexts
      [] f = "analysis_type" -> {AnalysisTypes[1], AnalysisTypes[2]}
      [] f = "contract_type" -> {ContractTypes[1], ContractTypes[3]}
      [] f = "focus_areas" -> Selections(FocusAreas, 2)
      [] f = "document_type" -> {DocumentTypes[1], DocumentTypes[2], DocumentTypes[3]}
      [] f = "jurisdiction_filter" -> Selections(Jurisdictions, 2)
      [] f = "case_type" -> {CaseTypes[1], CaseTypes[2]}
      [] f = "time_period" -> {TimePeriods[1], TimePeriods[2]}
      [] f = "priority" -> {Priorities[1], Priorities[2]}
      [] f = "analysis_depth" -> {AnalysisDepths[1], AnalysisDepths[2]}
      [] f = "industry" -> {Industries[1], Industries[2]}
      [] f = "business_size" -> {BusinessSizes[1], BusinessSizes[2]}
      [] f = "memo_type" -> {MemoTypes[1], MemoTypes[2]}
      [] f = "include_recommendations" -> BOOLEAN
      [] f = "geographic_scope" -> Selections(GeographicScopes, 2)
      [] OTHER -> Selections(ComplianceAreas, 1)

\* A widget answers the user only in a run that renders it: the text area
\* only without an uploaded file (160, 174), the two inputs of line 246 only
\* for the two document types.
Rendered(w, f) ==
    CASE f = "contract_text" -> ~w.uploaded_file.present
      [] f \in {"duration", "compensation"} -> HasDurationInputs(w.document_type)
      [] OTHER -> TRUE

\* The widget values after the user gave widget f the value v: the widgets
\* the next run does not render lose their value.
Unrendered(w) ==
    [w EXCEPT !.contract_text = IF w.uploaded_file.present THEN <<>> ELSE @,
              !.duration = IF HasDurationInputs(w.document_type) THEN @ ELSE <<>>,
              !.compensation = IF HasDurationInputs(w.document_type) THEN @ ELSE <<>>]

WidgetsAfter(w, f, v) == Unrendered([w EXCEPT ![f] = v])

\* ------------------------------------------------ submit branches (199-533)
\* Line 200
ContractValid(contract_text) == Truthy(contract_text) /\ Truthy(Strip(contract_text))

\* Line 259
DraftingValid(document_details) == Truthy(Strip(document_details))

\* Line 335
ResearchValid(legal_issue) == Truthy(Strip(legal_issue))

\* Line 406: all([memo_subject, facts, legal_question])
MemoValid_SubjectOnly(memo_subject, facts, legal_question) == Truthy(memo_subject)

MemoValid(memo_subject, facts, legal_question) ==
    Truthy(memo_subject) /\ Truthy(facts) /\ Truthy(legal_question)

\* Line 495
ComplianceValid(business_description) == Truthy(Strip(business_description))

\* Lines 222, 295, 363, 448, 533: the st.warning of each function
Warning(fc) ==
    CASE fc = Functions[1] ->
            <<"Please provide contract text or upload a contract file to analyze.">>
      [] fc = Functions[2] -> <<"Please provide document details and requirements.">>
      [] fc = Functions[3] -> <<"Please describe the legal issue you want to research.">>
      [] fc = Functions[4] ->
            <<"Please fill in all required fields (Subject, Facts, and Legal Questions).">>
      [] OTHER ->
            <<"Please provide a business description to analyze compliance requirements.">>

\* Lines 288-293 and 441-446: the two functions that offer a download.
OffersDownload(fc) == fc \in {Functions[2], Functions[4]}

NoResponse == [kind |-> "none", status |-> 0, body |-> "empty"]

NoPrompt == <<>>

\* What one run of the script leaves on the page and on the wire.
\*   button: the submit button was pressed in this run
\*   contract_text: the variable of line 159 (Contract Analysis only)
\*   valid: the required-field check of the submit branch passed
\*   system_prompt, user_prompt: the f-strings composed, as segments
\*   calls: the number of calls of make_api_request
\*   resp: the answer of the network to the request, if one was sent
\*   api: what make_api_request returned and did
\*   warnings, errors: the st.warning and st.error messages, in order
\*   shown: the result text rendered by st.markdown(result), or None
\*   download: a download button is offered
IdleRun(key, extract) ==
    [button |-> FALSE, contract_text |-> extract.text, valid |-> FALSE,
     system_prompt |-> NoPrompt, user_prompt |-> NoPrompt, calls |-> 0,
     resp |-> NoResponse, api |-> NoCall(key), warnings |-> <<>>,
     errors |-> extract.errors, shown |-> None, download |-> FALSE]

\* Lines 215-220 and the like: the run that called make_api_request, with
\* the state r of the call; `if result:` renders the result returned, and
\* the download button where there is one.
CalledRun(fc, extract, system_prompt, user_prompt, resp, r) ==
    [button |-> TRUE, contract_text |-> extract.text, valid |-> TRUE,
     system_prompt |-> system_prompt, user_prompt |-> user_prompt,
     calls |-> 1, resp |-> resp, api |-> r, warnings |-> <<>>,
     errors |-> extract.errors \o r.errors,
     shown |-> IF ~r.raised /\ TruthyVal(r.ret) THEN r.ret ELSE None,
     download |-> ~r.raised /\ TruthyVal(r.ret) /\ OffersDownload(fc)]

\* The common shape of the five submit branches: `if <valid>:` compose and
\* call make_api_request once; `else:` st.warning.
SubmitRun(fc, key, extract, valid, system_prompt, user_prompt) ==
    IF valid
    THEN CalledRun(fc, extract, system_prompt, user_prompt, NoResponse,
                   make_api_request(key, Flatten(user_prompt), Flatten(system_prompt)))
    ELSE [button |-> TRUE, contract_text |-> extract.text, valid |-> FALSE,
          system_prompt |-> NoPrompt, user_prompt |-> NoPrompt, calls |-> 0,
          resp |-> NoResponse, api |-> NoCall(key), warnings |-> <<Warning(fc)>>,
          errors |-> extract.errors, shown |-> None, download |-> FALSE]

NoExtract == [text |-> <<>>, errors |-> <<>>]

\* Lines 181-222, with the contract text x of lines 159-179
ContractForm(key, w, pressed, x) ==
    IF pressed
    THEN SubmitRun(Functions[1], key, x, ContractValid(x.text),
                   ContractSystemPrompt(w.analysis_type, w.focus_areas, w.contract_type),
                   ContractUserPrompt(x.text))
    ELSE IdleRun(key, x)

\* Lines 147-222
ContractBranch(key, w, pressed) ==
    ContractForm(key, w, pressed,
                 ContractText(w.uploaded_file, w.contract_text))

\* Lines 225-295
DraftingBranch(key, w, pressed) ==
    IF pressed
    THEN SubmitRun(Functions[2], key, NoExtract, DraftingValid(w.document_details),
                   DraftingSystemPrompt(w.document_type, w.jurisdiction),
                   DraftingUserPrompt(w.document_type, w.document_details, w.parties,
                                      w.jurisdiction, w.duration, w.compensation))
    ELSE IdleRun(key, NoExtract)

\* Lines 298-363
ResearchBranch(key, w, pressed) ==
    IF pressed
    THEN SubmitRun(Functions[3], key, NoExtract, ResearchValid(w.legal_issue),
                   ResearchSystemPrompt(w.jurisdiction_filter, w.case_type, w.time_period),
                   ResearchUserPrompt(w.legal_issue, w.case_context,
                                      w.jurisdiction_filter, w.case_type, w.time_period))
    ELSE IdleRun(key, NoExtract)

\* Lines 366-448
MemoBranch(key, w, pressed) ==
    IF pressed
    THEN SubmitRun(Functions[4], key, NoExtract,
                   MemoValid(w.memo_subject, w.facts, w.legal_question),
                   MemoSystemPrompt(w.memo_type, w.analysis_depth, w.priority,
                                    w.include_recommendations),
                   MemoUserPrompt(w.memo_to, w.memo_from, w.memo_subject, w.memo_type,
                                  w.facts, w.legal_question))
    ELSE IdleRun(key, NoExtract)

\* Lines 451-533
ComplianceBranch(key, w, pressed) ==
    IF pressed
    THEN SubmitRun(Functions[5], key, NoExtract,
                   ComplianceValid(w.business_description),
                   ComplianceSystemPrompt(w.industry, w.business_size,
                                          w.geographic_scope, w.compliance_areas),
                   ComplianceUserPrompt(w.industry, w.business_description,
                                        w.specific_concerns, w.business_size,
                                        w.geographic_scope, w.compliance_areas))
    ELSE IdleRun(key, NoExtract)

\* Lines 147, 225, 298, 366, 451: the branch of the selected function
Branch(fc, key, w, pressed) ==
    CASE fc = Functions[1] -> ContractBranch(key, w, pressed)
      [] fc = Functions[2] -> DraftingBranch(key, w, pressed)
      [] fc = Functions[3] -> ResearchBranch(key, w, pressed)
      [] fc = Functions[4] -> MemoBranch(key, w, pressed)
      [] OTHER -> ComplianceBranch(key, w, pressed)

\* ------------------------------------------------------------- the session
VARIABLES
    env,              \* the process environment (OPENROUTER_API_KEY)
    api_key,          \* st.session_state.api_key
    key_input,        \* the text the user last left in the sidebar key input
    function_choice,  \* the function selected at line 134
    widgets,          \* the values of the widgets of the selected function
    run,              \* the current run of the script: finished, or waiting
                      \* inside requests.post
    last_op           \* the step taken last

vars == <<env, api_key, key_input, function_choice, widgets, run, last_op>>

\* Lines 55-111 of a run: session initialisation, then the sidebar.
Prologue(has_key, key, typed, e) == Sidebar(SessionInit(has_key, key, e), typed, e)

\* The first run of the script in a new session: the session state is empty,
\* the key input shows the default value, the first function is selected.
Init ==
    /\ env \in Environments
    /\ api_key = Prologue(FALSE, <<>>, SessionInit(FALSE, <<>>, env), env)
    /\ key_input = api_key
    /\ function_choice = Functions[1]
    /\ widgets = DefaultWidgets
    /\ run = Branch(Functions[1], api_key, DefaultWidgets, FALSE)
    /\ last_op = "open"

\* One run of the script, up to its end or to the point where it waits in
\* requests.post, after an interaction that left the widgets at w, the key
\* input at `typed` and the function at fc.  A run that was waiting when the
\* user acted is stopped by Streamlit at its next st.* call: it renders
\* neither the result nor the error of its request, and this run replaces it.
Rerun(typed, fc, w, pressed, op) ==
    /\ run' = Branch(fc, Prologue(TRUE, api_key, typed, env), w, pressed)
    /\ api_key' = run'.api.api_key
    /\ key_input' = typed
    /\ function_choice' = fc
    /\ widgets' = w
    /\ last_op' = op
    /\ UNCHANGED env

\* The user edits the key in the sidebar (offered only by line 101).
EditKey(k) ==
    /\ KeyInputOffered(env)
    /\ k # key_input
    /\ Rerun(k, function_choice, widgets, FALSE, "EditKey")

\* The user selects another function at line 134.
SelectFunction(fc) ==
    /\ fc # function_choice
    /\ Rerun(key_input, fc, DefaultWidgets, FALSE, "SelectFunction")

\* The user changes one widget of the selected function.
SetField(f, v) ==
    /\ Rendered(widgets, f)
    /\ v # widgets[f]
    /\ Rerun(key_input, function_choice, WidgetsAfter(widgets, f, v), FALSE, "SetField")

\* The user presses the submit button of the selected function.
Submit ==
    Rerun(key_input, function_choice, widgets, TRUE, "Submit")

\* Line 82, inside requests.post: the endpoint answers the last request with
\* a redirect to the same URL and the library follows it.
Redirect(status) ==
    /\ run.api.waiting
    /\ Len(run.api.posts) = 1
    /\ run' = [run EXCEPT !.api.posts = Follow(@, status)]
    /\ last_op' = "Redirect"
    /\ UNCHANGED <<env, api_key, key_input, function_choice, widgets>>

\* Lines 82-95 and the rest of the run: requests.post returns or raises on
\* the answer resp, make_api_request returns, and the submit branch renders
\* the result.
Respond(resp) ==
    /\ run.api.waiting
    /\ Len(run.api.posts) = 1 \/ resp \in RedirectedResponses
    /\ run' = CalledRun(function_choice,
                        [text |-> run.contract_text, errors |-> run.errors],
                        run.system_prompt, run.user_prompt, resp,
                        Answered(api_key, run.api.posts, resp))
    /\ api_key' = run'.api.api_key
    /\ last_op' = "Respond"
    /\ UNCHANGED <<env, key_input, function_choice, widgets>>

Next ==
    \/ \E k \in KeyInputs : EditKey(k)
    \/ \E i \in 1..Len(Functions) : SelectFunction(Functions[i])
    \/ \E f \in FieldsOf(function_choice) : \E v \in FieldDomain(f) : SetField(f, v)
    \/ Submit
    \/ \E s \in RedirectStatuses : Redirect(s)
    \/ \E resp \in Responses : Respond(resp)

Spec == Init /\ [][Next]_vars

\* ------------------------------------------------------------- properties
\* The multi-select placeholders of the prompts of each function: the prompt,
\* the segment of its f-string and the widget interpolated there.
MultiSelectSlots(fc) ==
    CASE fc = Functions[1] ->
            { [prompt |-> "system", seg |-> 4, field |-> "focus_areas"] }
      [] fc = Functions[3] ->
            { [prompt |-> "system", seg |-> 2, field |-> "jurisdiction_filter"],
              [prompt |-> "user", seg |-> 6, field |-> "jurisdiction_filter"] }
      [] fc = Functions[5] ->
            { [prompt |-> "system", seg |-> 6, field |-> "geographic_scope"],
              [prompt |-> "system", seg |-> 8, field |-> "compliance_areas"],
              [prompt |-> "user", seg |-> 10, field |-> "geographic_scope"],
              [prompt |-> "user", seg |-> 12, field |-> "compliance_areas"] }
      [] OTHER -> {}

\* The placeholders of the optional text fields, likewise.
OptionalSlots(fc) ==
    CASE fc = Functions[2] ->
            { [prompt |-> "system", seg |-> 4, field |-> "jurisdiction"],
              [prompt |-> "user", seg |-> 6, field |-> "parties"],
              [prompt |-> "user", seg |-> 8, field |-> "jurisdiction"],
              [prompt |-> "user", seg |-> 10, field |-> "duration"],
              [prompt |-> "user", seg |-> 12, field |-> "compensation"] }
      [] fc = Functions[3] ->
            { [prompt |-> "user", seg |-> 4, field |-> "case_context"] }
      [] fc = Functions[4] ->
            { [prompt |-> "user", seg |-> 2, field |-> "memo_to"],
              [prompt |-> "user", seg |-> 4, field |-> "memo_from"] }
      [] fc = Functions[5] ->
            { [prompt |-> "user", seg |-> 6, field |-> "specific_concerns"] }
      [] OTHER -> {}

\* The text a slot received in the prompts of the last run.
SlotText(slot) ==
    IF slot.prompt = "system" THEN run.system_prompt[slot.seg]
    ELSE run.user_prompt[slot.seg]

\* Some required field of the selected function is empty.
RequiredFieldEmpty ==
    CASE function_choice = Functions[1] -> run.contract_text = <<>>
      [] function_choice = Functions[2] -> widgets.document_details = <<>>
      [] function_choice = Functions[3] -> widgets.legal_issue = <<>>
      [] function_choice = Functions[4] ->
            \/ widgets.memo_subject = <<>>
            \/ widgets.facts = <<>>
            \/ widgets.legal_question = <<>>
      [] OTHER -> widgets.business_description = <<>>

\* C1: whenever make_api_request is called with an empty session credential,
\* it returns None, shows the configuration error and issues no HTTP request.
C1_MissingCredentialFailsFast ==
    (run.calls = 1 /\ api_key = <<>>) =>
        /\ run.api.ret = None
        /\ run.api.errors = <<ConfigError>>
        /\ run.api.posts = <<>>
        /\ ~run.api.raised

\* A submit that passed validation with no credential: the call was refused.
C1_Witness ==
    /\ last_op = "Submit" /\ run.calls = 1 /\ api_key = <<>>
    /\ run.errors = <<ConfigError>> /\ run.api.posts = <<>>

\* C2: pressing the submit button of a function while one of its required
\* fields is empty shows the function's warning, never calls
\* make_api_request and issues no request.
C2_EmptyRequiredFieldIsRejected ==
    (run.button /\ RequiredFieldEmpty) =>
        /\ run.warnings = <<Warning(function_choice)>>
        /\ run.calls = 0
        /\ run.api.posts = <<>>

\* A memorandum submitted with a subject but without facts, with a
\* credential present, was rejected.
C2_Witness ==
    /\ run.button /\ function_choice = Functions[4]
    /\ widgets.memo_subject # <<>> /\ widgets.facts = <<>>
    /\ Truthy(api_key)
    /\ run.warnings = <<Warning(Functions[4])>> /\ run.calls = 0

\* The number of POST requests among the requests of a call.
CountPosts(sent) == Cardinality({i \in 1..Len(sent) : sent[i].method = "POST"})

\* C3: a run calls make_api_request at most once, and a call with a
\* credential present issues exactly one HTTP POST, whatever the outcome; no
\* request is issued without a call.
C3_OnePostPerCall ==
    /\ run.calls \in {0, 1}
    /\ (run.calls = 0 => run.api.posts = <<>>)
    /\ (run.calls = 1 /\ Truthy(api_key)) => CountPosts(run.api.posts) = 1

\* C4: after a submit has run to its end, if no result text is displayed
\* then an error or a warning is displayed.
C4_NoSilentAbsence ==
    (run.button /\ ~run.api.waiting /\ run.shown = None) =>
        (run.errors # <<>> \/ run.warnings # <<>>)

\* C5: when the endpoint answers with a status outside 2xx, make_api_request
\* does not raise, returns None and reports a failure that carries the status
\* and is not one of the transport failures.
C5_NonOkStatusIsProtocolFailure ==
    (run.calls = 1 /\ run.resp.kind = "response"
       /\ ~(200 <= run.resp.status /\ run.resp.status < 300)) =>
        /\ ~run.api.raised
        /\ run.api.ret = None
        /\ run.api.exc = "HTTPError"
        /\ Len(run.api.errors) = 1
        /\ run.api.errors[1][2] = ToString(run.resp.status)

\* C6: when the endpoint answers 2xx with a body that is not JSON, has no
\* choices array or no choices[0].message.content, make_api_request does not
\* raise, returns None and reports the failure apart from the transport and
\* protocol failures, which the RequestException handler reports.
C6_MalformedBodyIsMalformedResponse ==
    (run.calls = 1 /\ run.resp.kind = "response"
       /\ 200 <= run.resp.status /\ run.resp.status < 300
       /\ run.resp.body \in {"not_json", "no_choices", "empty_choices", "no_content"}) =>
        /\ ~run.api.raised
        /\ run.api.ret = None
        /\ Len(run.api.errors) = 1
        /\ run.api.handler = "Exception"

\* C7: the session credential changes only in a run caused by an edit of the
\* sidebar key input; a submit leaves it as it was, on every outcome of
\* make_api_request, and so do the other interactions.
C7_OnlySidebarWritesCredential ==
    [][api_key' # api_key => last_op' = "EditKey"]_vars

\* A request failed and the credential is still the one the user entered.
C7_Witness ==
    /\ last_op = "Respond" /\ run.calls = 1 /\ run.api.exc # "none"
    /\ Truthy(api_key) /\ api_key = key_input

\* C8: with OPENROUTER_API_KEY set to a non-empty value the credential, and
\* the bearer token of every request, is that value, and no run is caused by
\* an edit of the key input; with the variable unset or empty the credential
\* and the bearer token are what the user last left in the key input.
C8_EnvironmentKeyTakesPrecedence ==
    LET expected == IF EnvironGet(env) # <<>> THEN EnvironGet(env) ELSE key_input
    IN  /\ api_key = expected
        /\ \A i \in 1..Len(run.api.posts) :
               run.api.posts[i].headers.Authorization = <<"Bearer ">> \o expected
        /\ EnvironGet(env) # <<>> => last_op # "EditKey"

\* A request was sent with the key of the environment.
C8_Witness ==
    /\ EnvironGet(env) = <<"e">>
    /\ Len(run.api.posts) = 1
    /\ run.api.posts[1].headers.Authorization = <<"Bearer ", "e">>

\* C9: in every composed prompt, system or user, a multi-select is rendered
\* as its selected options joined by ", ", and an empty selection as a named
\* default phrase, never as nothing or as an empty list.
C9_MultiSelectJoinedOrDefault ==
    run.valid =>
        \A slot \in MultiSelectSlots(function_choice) :
            IF Truthy(widgets[slot.field])
            THEN SlotText(slot) = Join(<<", ">>, Items(widgets[slot.field]))
            ELSE SlotText(slot) \notin {<<>>, <<"[", "]">>}

\* C10: in every composed prompt an optional text field left empty is
\* rendered as a named placeholder, never as an empty substitution.
C10_EmptyOptionalHasPlaceholder ==
    run.valid =>
        \A slot \in OptionalSlots(function_choice) :
            widgets[slot.field] = <<>> => Truthy(Strip(SlotText(slot)))

\* `sub in s` for strings
Contains(s, sub) ==
    \E i \in 0..(Len(s) - Len(sub)) : SubSeq(s, i + 1, i + Len(sub)) = sub

\* A Contract Analysis submit that passed the check of line 200.
ContractComposed == run.valid /\ function_choice = Functions[1]

\* What every composed Contract Analysis run has: the default focus phrase
\* for an empty focus_areas, the contract text as the user prompt, and both
\* prompts unchanged in the messages of every request sent with a body.
ContractPromptsAsSent ==
    /\ (widgets.focus_areas = <<>> =>
            Contains(Flatten(run.system_prompt), <<"all standard contract provisions">>))
    /\ Flatten(run.user_prompt) = run.contract_text
    /\ \A i \in 1..Len(run.api.posts) :
           \A j \in 1..Len(run.api.posts[i].body) :
               /\ run.api.posts[i].body[j].messages[1].content = Flatten(run.system_prompt)
               /\ run.api.posts[i].body[j].messages[2].content = run.contract_text

\* C11 as stated: for Contract Analysis with non-blank contract text the
\* system prompt contains the selected analysis_type with its case preserved,
\* contains the default focus phrase when focus_areas is empty, and the user
\* prompt sent equals contract_text.
C11_AnalysisTypeLiteral ==
    ContractComposed =>
        /\ Contains(Flatten(run.system_prompt), <<widgets.analysis_type>>)
        /\ ContractPromptsAsSent

\* C11 as amended: the system prompt contains the selected analysis_type in
\* lower case ("risk assessment" for "Risk Assessment"), and not with its
\* case preserved; the rest as stated.
C11_AnalysisTypeLowerCased ==
    ContractComposed =>
        /\ Contains(Flatten(run.system_prompt), <<LowerTok(widgets.analysis_type)>>)
        /\ ~Contains(Flatten(run.system_prompt), <<widgets.analysis_type>>)
        /\ ContractPromptsAsSent

\* A Risk Assessment with no focus area was sent: the system prompt reads
\* "risk assessment" and the user message is the contract text.
C11_Witness ==
    /\ ContractComposed /\ last_op = "Submit"
    /\ widgets.analysis_type = "Risk Assessment" /\ widgets.focus_areas = <<>>
    /\ run.system_prompt[2] = <<"risk assessment">>
    /\ Len(run.api.posts) = 1
    /\ run.api.posts[1].body[1].messages[2].content = run.contract_text

\* The number of newline characters of a text.
CountNewlines(s) == Cardinality({i \in 1..Len(s) : s[i] = "\n"})

NotNewline(c) == c # "\n"

\* The extractable text of a page: nothing for None and for the empty string.
PageChars(v) == IF v.t = "str" THEN v.s ELSE <<>>

\* The uploaded file is declared a PDF by its name.
PdfUploaded ==
    /\ function_choice = Functions[1]
    /\ widgets.uploaded_file.present
    /\ FileType(widgets.uploaded_file) = <<"pdf">>

\* C12: the contract text of an uploaded PDF with N >= 1 pages is the page
\* texts in order with exactly N-1 newline separators between them, a page
\* without extractable text contributing nothing, and no extraction error is
\* shown; a file that cannot be parsed as a PDF gives the "Could not read
\* PDF" error and empty contract text, and a submit is then rejected with the
\* warning, without a call and without a request.
C12_PdfPagesJoinedByNewline ==
    /\ (PdfUploaded /\ widgets.uploaded_file.valid
          /\ Len(widgets.uploaded_file.pages) >= 1) =>
            /\ CountNewlines(run.contract_text) = Len(widgets.uploaded_file.pages) - 1
            /\ SelectSeq(run.contract_text, NotNewline) =
                   Flatten([i \in 1..Len(widgets.uploaded_file.pages) |->
                               PageChars(widgets.uploaded_file.pages[i])])
            /\ \A i \in 1..Len(run.errors) : run.errors[i][1] # "Could not read PDF: "
    /\ (PdfUploaded /\ ~widgets.uploaded_file.valid) =>
            /\ run.errors # <<>>
            /\ run.errors[1][1] = "Could not read PDF: "
            /\ run.contract_text = <<>>
            /\ run.button =>
                   /\ run.warnings = <<Warning(Functions[1])>>
                   /\ run.calls = 0
                   /\ run.api.posts = <<>>

\* A two-page PDF whose second page has no extractable text was extracted to
\* the first page's text and one separator, and submitted.
C12_Witness ==
    /\ PdfUploaded /\ widgets.uploaded_file.valid
    /\ widgets.uploaded_file.pages = <<StrVal(<<"x">>), None>>
    /\ run.contract_text = <<"x", "\n">>
    /\ last_op = "Submit" /\ run.calls = 1

====
